---- MODULE Spec2Model ----
(***************************************************************************)
(* Model of the NTC_Reader numeric core: the generic table search          *)
(* (lut_utils::binarySearchLut), the linear interpolation                   *)
(* (lut_utils::applyLinearInterpolation), the voltage-divider resistance    *)
(* formula (VoltageDividerResistanceConverter), the LUT temperature         *)
(* converter (LutTemperatureConverter), the averaging sampler (AdcSampler), *)
(* the filters (EmaFilter, SmaFilter), the pipeline (TemperatureSensor) and *)
(* the two pipelines of the example program.                                *)
(*                                                                          *)
(* Each component has its own specification (SpecSearch, SpecRes,           *)
(* SpecInterp, SpecTemp, SpecSample, SpecEma, SpecEmaConst, SpecSma,        *)
(* SpecPipe, SpecChan); a specification draws its inputs in its Init and    *)
(* its actions run the component.  The variables of the components it does  *)
(* not use stay at their idle values.                                       *)
(***************************************************************************)
EXTENDS Integers, Sequences, FiniteSets, TLC

VARIABLES
    \* ---- lut_utils::binarySearchLut (one call) ----
    keys,          \* proj(lut[0..N-1]): the projected keys of the table, 1-based sequence
    target,        \* Key target
    hint,          \* LutOrder order as passed by the caller
    order,         \* LutOrder order (the resolved order after Step1)
    left,          \* size_t left
    right,         \* size_t right
    mid,           \* size_t mid of the last loop iteration
    result,        \* LutBracket result
    spc,           \* position in binarySearchLut: "idle", "start", "loop", "done"
    inspections,   \* number of loop iterations (midpoint inspections) so far, saturating
    oobRead,       \* TRUE once lut[mid] was read with mid >= N
    \* ---- VoltageDividerResistanceConverter (one call) ----
    fixedResistor_,   \* const uint16_t fixedResistor_
    adc_raw,          \* argument of convertToResistance_x10
    resistance_x10,   \* value returned by convertToResistance_x10
    divByZero,        \* TRUE once the formula divided by zero
    rpc,              \* "idle", "call", "done"
    \* ---- lut_utils::applyLinearInterpolation (one call) ----
    r_measured_x10,   \* Res r_measured_x10
    r_cold_x10,       \* Res r_cold_x10
    r_hot_x10,        \* Res r_hot_x10
    t_cold_x10,       \* Temp t_cold_x10
    t_hot_x10,        \* Temp t_hot_x10
    t_returned,       \* value returned by applyLinearInterpolation
    idivided,         \* TRUE once applyLinearInterpolation evaluated its division
    ipc,              \* "idle", "call", "done"
    \* ---- LutTemperatureConverter::convertToTemperature_x10 (one call) ----
    temperature_x10,  \* value returned by convertToTemperature_x10
    tpc,              \* "idle", "call", "search", "done"
    \* ---- AdcSampler (one call of sample()) ----
    samples_per_read_,  \* const uint8_t samples_per_read_
    discard_N_first_,   \* const uint8_t discard_N_first_
    settleUs_,          \* const uint8_t settleUs_
    accumulated,        \* uint32_t accumulated
    acquired,           \* the values analogRead(pin_) returned during the call, in order
    avg,                \* value returned by sample()
    apc,                \* "idle", "sample", "done"
    \* ---- EmaFilter<int16_t> ----
    alpha_,             \* float alpha_, held as [m, e] with alpha_ = m * 2^e
    prev_value_,        \* T prev_value_
    new_value,          \* argument of the last apply
    filtered,           \* value returned by the last apply
    epc,                \* "idle", "constructed", "begun", "applied"
    \* ---- TemperatureSensor ----
    sampler_,                \* ISampler* sampler_
    resistanceConverter_,    \* IResistanceConverter* resistanceConverter_
    temperatureConverter_,   \* ITemperatureConverter* temperatureConverter_
    filter_,                 \* IFilter<int16_t>* filter_
    built,                   \* TRUE once build() was called
    builtStages,             \* the four stage pointers as the last build() saw them
    stages,                  \* the stages the last readTemperature_x10 invoked, in order
    returned,                \* value returned by the last readTemperature_x10
    reads,                   \* number of readTemperature_x10 calls so far
    ppc,                     \* "idle", "config", "returned", "hung"
    \* ---- SmaFilter<int16_t> ----
    window_,            \* uint8_t window_
    prev_avg_,          \* T prev_avg_
    initialize_,        \* bool initialize_ (no constructor initialiser)
    new_val,            \* argument of the last apply
    averaged,           \* value returned by the last apply
    mpc,                \* "idle", "constructed", "begun", "applied", "undefined"
    \* ---- the two pipelines of the example program ----
    ch_prev,            \* prev_value_ of each pipeline's own filter
    ch_samples,         \* the raw values each pipeline's own sampler returned, in order
    ch_returned,        \* the values each pipeline's readTemperature_x10 returned, in order
    ch_hung             \* the pipeline whose read has not returned, or "none"

searchVars == <<keys, target, hint, order, left, right, mid, result, spc, inspections, oobRead>>
resVars    == <<fixedResistor_, adc_raw, resistance_x10, divByZero, rpc>>
interpVars == <<r_measured_x10, r_cold_x10, r_hot_x10, t_cold_x10, t_hot_x10,
                t_returned, idivided, ipc>>
tempVars   == <<temperature_x10, tpc>>
sampleVars == <<samples_per_read_, discard_N_first_, settleUs_, accumulated, acquired,
                avg, apc>>
emaVars    == <<alpha_, prev_value_, new_value, filtered, epc>>
pipeVars   == <<sampler_, resistanceConverter_, temperatureConverter_, filter_, built,
                builtStages, stages, returned, reads, ppc>>
smaVars    == <<window_, prev_avg_, initialize_, new_val, averaged, mpc>>
chanVars   == <<ch_prev, ch_samples, ch_returned, ch_hung>>
vars       == <<searchVars, resVars, interpVars, tempVars, sampleVars, emaVars, pipeVars,
                smaVars, chanVars>>

----------------------------------------------------------------------------
(* Bounds of the model *)

\* largest table size explored by SpecSearch
MaxN == 4
\* keys and targets of SpecSearch range over 0..MaxKey
MaxKey == 5
\* width in bits of the machine word modelling size_t
SizeBits == 4
\* the inspection counter saturates here
MaxInspections == 8
\* width in bits of the unsigned type Res of the interpolation keys (uint32_t in
\* the program; the model keeps the wrap-around of Res at a width whose
\* products with a temperature difference stay inside TLC's integers)
ResBits == 20
\* SpecTemp tries the resistances within Spread of every calibration key
Spread == 3
\* SpecSample constructs samplers that discard up to MaxDiscard acquisitions
MaxDiscard == 4
\* and average up to MaxAverage acquisitions
MaxAverage == 4
\* the alphas tried include every multiple of 2^-AlphaBits from just below 0
\* to just above 1
AlphaBits == 2
\* SpecPipe follows a pipeline through MaxReads calls of readTemperature_x10
MaxReads == 2
\* SpecSma constructs filters with a window of up to MaxWindow
MaxWindow == 4
\* SpecChan follows each of the two pipelines through MaxChannelReads reads
MaxChannelReads == 2

----------------------------------------------------------------------------
(* Machine integers *)

RECURSIVE Pow2(_)
Pow2(n) == IF n = 0 THEN 1 ELSE 2 * Pow2(n - 1)

\* size_t arithmetic is modulo SizeWord
SizeWord == Pow2(SizeBits)
SIZE_MAX == SizeWord - 1
ToSize(x) == x % SizeWord

\* arithmetic in Res is modulo ResWord
ResWord == Pow2(ResBits)
ToRes(x) == x % ResWord

\* static_cast<int16_t>
ToInt16(x) == ((x + 32768) % 65536) - 32768

\* the smaller of two integers
Min(a, b) == IF a < b THEN a ELSE b

\* C++ integer division truncates toward zero
TruncDiv(a, b) ==
    IF (a >= 0) = (b > 0)
    THEN (IF a >= 0 THEN a ELSE -a) \div (IF b > 0 THEN b ELSE -b)
    ELSE -((IF a >= 0 THEN a ELSE -a) \div (IF b > 0 THEN b ELSE -b))

----------------------------------------------------------------------------
(* lut_utils::binarySearchLut *)

LutOrders == {"DECREASING", "INCREASING", "AUTO"}

\* LutBracket(): the default-constructed bracket
LutBracket ==
    [lowerIdx |-> 0, upperIdx |-> 0, exactIdx |-> SIZE_MAX,
     foundExact |-> FALSE, outOfRange |-> FALSE, clamped |-> FALSE]

\* Step1: resolve the AUTO hint from the first two keys
DetectOrder(ks, h) ==
    IF h = "AUTO"
    THEN IF Len(ks) < 2 THEN "INCREASING"
         ELSE IF ks[1] <= ks[2] THEN "INCREASING" ELSE "DECREASING"
    ELSE h

\* what the read of an index outside the array can compare as: below, equal
\* to or above the target (the value itself is whatever memory holds there)
GarbageKeys(t) == {t} \cup (IF t > 0 THEN {t - 1} ELSE {}) \cup {t + 1}

\* proj(lut[m]): the key at index m, any value when m is outside the array
ReadKey(ks, m, t) == IF m < Len(ks) THEN {ks[m + 1]} ELSE GarbageKeys(t)

\* size_t mid = left + (right - left) / 2
MidPoint(l, r) == ToSize(l + (ToSize(r - l) \div 2))

\* mutation of GoLeft: the order is ignored, the table is taken as increasing
GoLeft_IgnoresOrder(ord, t, midKey) == t < midKey

\* goLeft = (order == INCREASING) ? (target < midKey) : !(target < midKey)
GoLeft(ord, t, midKey) == IF ord = "INCREASING" THEN t < midKey ELSE ~(t < midKey)

\* right = mid - 1, in size_t
MoveRight(m) == ToSize(m - 1)

\* left = mid + 1, in size_t
MoveLeft(m) == ToSize(m + 1)

\* the bracket returned on an exact match
ExactBracket(res, m) ==
    [res EXCEPT !.exactIdx = m, !.foundExact = TRUE, !.lowerIdx = m,
                !.upperIdx = m, !.outOfRange = FALSE, !.clamped = FALSE]

\* mutation of FinalBracket: the high-end test is right > N - 1
FinalBracket_StrictHighEnd(res, l, r, n) ==
    IF l = 0
    THEN [res EXCEPT !.lowerIdx = 0, !.upperIdx = 1, !.clamped = TRUE,
                     !.foundExact = FALSE]
    ELSE IF r > ToSize(n - 1)
    THEN [res EXCEPT !.lowerIdx = ToSize(n - 2), !.upperIdx = ToSize(n - 1),
                     !.clamped = TRUE, !.foundExact = FALSE]
    ELSE [res EXCEPT !.lowerIdx = r, !.upperIdx = l, !.outOfRange = FALSE,
                     !.clamped = FALSE, !.foundExact = FALSE]

\* mutation of FinalBracket: the straddling pair is returned as [left, right]
FinalBracket_SwappedPair(res, l, r, n) ==
    IF l = 0
    THEN [res EXCEPT !.lowerIdx = 0, !.upperIdx = 1, !.clamped = TRUE,
                     !.foundExact = FALSE]
    ELSE IF r >= ToSize(n - 1)
    THEN [res EXCEPT !.lowerIdx = ToSize(n - 2), !.upperIdx = ToSize(n - 1),
                     !.clamped = TRUE, !.foundExact = FALSE]
    ELSE [res EXCEPT !.lowerIdx = l, !.upperIdx = r, !.outOfRange = FALSE,
                     !.clamped = FALSE, !.foundExact = FALSE]

\* Step3: the bracket returned when the loop ends without an exact match
FinalBracket(res, l, r, n) ==
    IF l = 0
    THEN [res EXCEPT !.lowerIdx = 0, !.upperIdx = 1, !.clamped = TRUE,
                     !.foundExact = FALSE]
    ELSE IF r >= ToSize(n - 1)
    THEN [res EXCEPT !.lowerIdx = ToSize(n - 2), !.upperIdx = ToSize(n - 1),
                     !.clamped = TRUE, !.foundExact = FALSE]
    ELSE [res EXCEPT !.lowerIdx = r, !.upperIdx = l, !.outOfRange = FALSE,
                     !.clamped = FALSE, !.foundExact = FALSE]

\* Step0 and Step1: initialise the bounds and the result, resolve the order
SearchStart ==
    /\ spc = "start"
    /\ result' = [LutBracket EXCEPT !.outOfRange = TRUE]
    /\ left' = 0
    /\ right' = ToSize(Len(keys) - 1)
    /\ order' = DetectOrder(keys, hint)
    /\ spc' = "loop"
    /\ UNCHANGED <<keys, target, hint, mid, inspections, oobRead>>

\* Step2: one iteration of while (left <= right)
SearchLoop ==
    /\ spc = "loop"
    /\ left <= right
    /\ LET m == MidPoint(left, right) IN
       \E midKey \in ReadKey(keys, m, target) :
          /\ mid' = m
          /\ oobRead' = (oobRead \/ m >= Len(keys))
          /\ inspections' = IF inspections < MaxInspections
                            THEN inspections + 1 ELSE inspections
          /\ IF midKey = target
             THEN /\ result' = ExactBracket(result, m)
                  /\ spc' = "done"
                  /\ UNCHANGED <<left, right>>
             ELSE IF GoLeft(order, target, midKey)
             THEN /\ right' = MoveRight(m)
                  /\ UNCHANGED <<left, result, spc>>
             ELSE /\ left' = MoveLeft(m)
                  /\ UNCHANGED <<right, result, spc>>
    /\ UNCHANGED <<keys, target, hint, order>>

\* Step3: the loop has ended, build the bracket and return
SearchFinish ==
    /\ spc = "loop"
    /\ ~(left <= right)
    /\ result' = FinalBracket(result, left, right, Len(keys))
    /\ spc' = "done"
    /\ UNCHANGED <<keys, target, hint, order, left, right, mid, inspections, oobRead>>

\* the variables of binarySearchLut while no call is in progress
SearchIdle ==
    /\ keys = <<>> /\ target = 0 /\ hint = "AUTO" /\ order = "AUTO"
    /\ left = 0 /\ right = 0 /\ mid = 0
    /\ result = LutBracket /\ spc = "idle"
    /\ inspections = 0 /\ oobRead = FALSE

\* strictly monotonic tables of 2..MaxN keys over 0..MaxKey
IsIncreasing(ks) == \A i \in 1..(Len(ks) - 1) : ks[i] < ks[i + 1]
IsDecreasing(ks) == \A i \in 1..(Len(ks) - 1) : ks[i] > ks[i + 1]
SearchTables ==
    UNION {{ks \in [1..n -> 0..MaxKey] : IsIncreasing(ks) \/ IsDecreasing(ks)} :
           n \in 2..MaxN}

\* entry of one binarySearchLut call on any strictly monotonic table
SearchCall ==
    /\ keys \in SearchTables
    /\ target \in 0..MaxKey
    /\ hint \in LutOrders
    /\ order = hint
    /\ left = 0 /\ right = 0 /\ mid = 0
    /\ result = LutBracket /\ spc = "start"
    /\ inspections = 0 /\ oobRead = FALSE

----------------------------------------------------------------------------
(* VoltageDividerResistanceConverter *)

\* Adc::MAX_VALUE = (1 << BIT_RESOLUTION) - 1
MAX_VALUE == 1023
\* Sensors::PULLUP_FIXED_RESISTOR_OHMS
PULLUP_FIXED_RESISTOR_OHMS == 12700

\* the constructor: a zero pull-up is replaced by the default
NewFixedResistor(pullup_Ohms) ==
    IF pullup_Ohms = 0 THEN PULLUP_FIXED_RESISTOR_OHMS ELSE pullup_Ohms

\* Step1 of convertToResistance_x10: the raw values rejected with 0
IsInvalidRaw(raw) == raw = 0 \/ raw > MAX_VALUE

\* mutation of ResistanceFormula: numerator and denominator take each other's
\* raw term, the formula of a divider with the thermistor on the supply side
ResistanceFormula_Swapped(raw, fixedResistor) ==
    ((MAX_VALUE - raw) * fixedResistor * 10) \div raw

\* mutation of ResistanceFormula: the product is taken in the 16-bit unsigned
\* int of the target, as it is without the conversion of adc_raw to uint32_t
ResistanceFormula_Uint16Product(raw, fixedResistor) ==
    ((raw * fixedResistor * 10) % 65536) \div (MAX_VALUE - raw)

\* Step2: (uint32_t(adc_raw) * fixedResistor_ * 10) / (Adc::MAX_VALUE - adc_raw);
\* the product is at most 1023 * 65535 * 10 and does not wrap in uint32_t
ResistanceFormula(raw, fixedResistor) ==
    (raw * fixedResistor * 10) \div (MAX_VALUE - raw)

\* what a division by zero can leave as the quotient: 0, an all-ones word (cut
\* here to a value whose successor TLC still holds) or any other value
DivByZeroValues == {0, 1, 2147483646}

\* convertToResistance_x10: the possible outcomes [value, divByZero] of a call
convertToResistance_x10(raw, fixedResistor) ==
    IF IsInvalidRaw(raw)
    THEN {[value |-> 0, divByZero |-> FALSE]}
    ELSE IF MAX_VALUE - raw = 0
    THEN {[value |-> v, divByZero |-> TRUE] : v \in DivByZeroValues}
    ELSE {[value |-> ResistanceFormula(raw, fixedResistor), divByZero |-> FALSE]}

\* one call of convertToResistance_x10(adc_raw)
ConvertToResistance ==
    /\ rpc = "call"
    /\ \E out \in convertToResistance_x10(adc_raw, fixedResistor_) :
          /\ resistance_x10' = out.value
          /\ divByZero' = out.divByZero
    /\ rpc' = "done"
    /\ UNCHANGED <<fixedResistor_, adc_raw>>

\* pull-up values given to the constructor
PullupValues == {0, 1, 96, 97, 102, 103, 12700, 65535}

\* a converter constructed with any pull-up, called with any raw value up to
\* one above the ADC range
ResCall ==
    /\ \E p \in PullupValues : fixedResistor_ = NewFixedResistor(p)
    /\ adc_raw \in 0..(MAX_VALUE + 1)
    /\ resistance_x10 = 0 /\ divByZero = FALSE /\ rpc = "call"

\* the variables of the resistance converter while no call is in progress
ResIdle ==
    /\ fixedResistor_ = 0 /\ adc_raw = 0 /\ resistance_x10 = 0
    /\ divByZero = FALSE /\ rpc = "idle"

----------------------------------------------------------------------------
(* The calibration table and lut_utils::applyLinearInterpolation *)

\* Sensors::LUT_TEMPERATURE_MIN_C and LUT_TEMPERATURE_MAX_C
LUT_TEMPERATURE_MIN_C == -40
LUT_TEMPERATURE_MAX_C == 40

\* NTC_LUT (data/thermistor_lut.h): ordered by decreasing resistance, from the
\* coldest entry to the hottest
NTC_LUT ==
    << [resistance_x10 |-> 100000, temperature_x10 |-> -400],
       [resistance_x10 |-> 5000, temperature_x10 |-> 250],
       [resistance_x10 |-> 1000, temperature_x10 |-> 400] >>
NTC_LUT_SIZE == Len(NTC_LUT)

\* math::clamp
clamp(value, min, max) ==
    IF value < min THEN min ELSE IF value > max THEN max ELSE value

\* mutation of InterpolatedRaw: the measured delta is taken from the hot key
InterpolatedRaw_FromHotKey(r_measured, r_cold, r_hot, t_cold, t_hot) ==
    LET delta_r          == ToRes(r_cold - r_hot)
        delta_r_measured == ToRes(r_measured - r_hot)
        delta_t          == ToInt16(t_hot - t_cold)
    IN  t_cold + TruncDiv(delta_t * delta_r_measured, delta_r)

\* mutation of InterpolatedRaw: the key delta is one too large
InterpolatedRaw_WideDelta(r_measured, r_cold, r_hot, t_cold, t_hot) ==
    LET delta_r          == ToRes(r_cold - r_hot) + 1
        delta_r_measured == ToRes(r_cold - r_measured)
        delta_t          == ToInt16(t_hot - t_cold)
    IN  t_cold + TruncDiv(delta_t * delta_r_measured, delta_r)

\* the deltas in Res and Temp and the int64_t value t_interpolated_x10
InterpolatedRaw(r_measured, r_cold, r_hot, t_cold, t_hot) ==
    LET delta_r          == ToRes(r_cold - r_hot)
        delta_r_measured == ToRes(r_cold - r_measured)
        delta_t          == ToInt16(t_hot - t_cold)
    IN  t_cold + TruncDiv(delta_t * delta_r_measured, delta_r)

\* the clamp applied when the interpolated value leaves the configured range
ClampToLut(t) ==
    IF t < LUT_TEMPERATURE_MIN_C * 10 \/ t > LUT_TEMPERATURE_MAX_C * 10
    THEN clamp(t, NTC_LUT[NTC_LUT_SIZE].temperature_x10, NTC_LUT[1].temperature_x10)
    ELSE t

\* the degenerate bracket returns before the deltas and the division are evaluated
InterpDivides(r_cold, r_hot) == r_cold # r_hot

\* mutation of applyLinearInterpolation: the degenerate bracket returns t_hot_x10
applyLinearInterpolation_ReturnsHot(r_measured, r_cold, r_hot, t_cold, t_hot) ==
    IF r_cold = r_hot
    THEN t_hot
    ELSE ToInt16(ClampToLut(InterpolatedRaw(r_measured, r_cold, r_hot, t_cold, t_hot)))

\* applyLinearInterpolation<Res, Temp>
applyLinearInterpolation(r_measured, r_cold, r_hot, t_cold, t_hot) ==
    IF r_cold = r_hot
    THEN t_cold
    ELSE ToInt16(ClampToLut(InterpolatedRaw(r_measured, r_cold, r_hot, t_cold, t_hot)))

\* one call of applyLinearInterpolation
InterpApply ==
    /\ ipc = "call"
    /\ t_returned' = applyLinearInterpolation(r_measured_x10, r_cold_x10, r_hot_x10,
                                              t_cold_x10, t_hot_x10)
    /\ idivided' = InterpDivides(r_cold_x10, r_hot_x10)
    /\ ipc' = "done"
    /\ UNCHANGED <<r_measured_x10, r_cold_x10, r_hot_x10, t_cold_x10, t_hot_x10>>

\* temperatures given to the interpolation: inside, at the ends of and outside
\* the span of the calibration table
InterpTemps == {-500, -400, -399, -1, 0, 250, 400, 500}

\* a call of applyLinearInterpolation with any keys and temperatures
InterpCall ==
    /\ r_measured_x10 \in 0..MaxKey
    /\ r_cold_x10 \in 0..MaxKey
    /\ r_hot_x10 \in 0..MaxKey
    /\ t_cold_x10 \in InterpTemps
    /\ t_hot_x10 \in InterpTemps
    /\ t_returned = 0 /\ idivided = FALSE /\ ipc = "call"

\* the variables of the interpolation while no call is in progress
InterpIdle ==
    /\ r_measured_x10 = 0 /\ r_cold_x10 = 0 /\ r_hot_x10 = 0
    /\ t_cold_x10 = 0 /\ t_hot_x10 = 0 /\ t_returned = 0 /\ idivided = FALSE
    /\ ipc = "idle"

\* the variables of the temperature converter while no call is in progress
TempIdle == temperature_x10 = 0 /\ tpc = "idle"

----------------------------------------------------------------------------
(* LutTemperatureConverter::convertToTemperature_x10 *)

\* the sentinel error code
SENTINEL == -32768

\* the keys the projection [](const ThermistorEntry& e) { return e.resistance_x10; }
\* extracts from NTC_LUT
LutKeys == [i \in 1..NTC_LUT_SIZE |-> NTC_LUT[i].resistance_x10]

\* what the read of a temperature outside NTC_LUT can yield
GarbageTemps == {SENTINEL, -400, 0, 400, 32767}

\* mutation of TemperatureFromBracket: an exact match returns the temperature
\* of the entry after the matching one
TemperatureFromBracket_NextEntry(r, b) ==
    IF b.outOfRange
    THEN IF b.clamped
         THEN IF r > NTC_LUT[1].resistance_x10
              THEN {NTC_LUT[1].temperature_x10}
              ELSE {NTC_LUT[NTC_LUT_SIZE].temperature_x10}
         ELSE {SENTINEL}
    ELSE IF b.foundExact
    THEN IF b.exactIdx + 1 < NTC_LUT_SIZE
         THEN {NTC_LUT[b.exactIdx + 2].temperature_x10}
         ELSE GarbageTemps
    ELSE IF b.lowerIdx < NTC_LUT_SIZE /\ b.upperIdx < NTC_LUT_SIZE
    THEN LET cold == NTC_LUT[b.lowerIdx + 1]
             hot  == NTC_LUT[b.upperIdx + 1]
         IN  {applyLinearInterpolation(r, cold.resistance_x10, hot.resistance_x10,
                                       cold.temperature_x10, hot.temperature_x10)}
    ELSE GarbageTemps

\* Step2 and Step3: the temperatures the converter can return for the bracket
\* the search gave; an index outside the table reads whatever memory holds
TemperatureFromBracket(r, b) ==
    IF b.outOfRange
    THEN IF b.clamped
         THEN IF r > NTC_LUT[1].resistance_x10
              THEN {NTC_LUT[1].temperature_x10}
              ELSE {NTC_LUT[NTC_LUT_SIZE].temperature_x10}
         ELSE {SENTINEL}
    ELSE IF b.foundExact
    THEN IF b.exactIdx < NTC_LUT_SIZE
         THEN {NTC_LUT[b.exactIdx + 1].temperature_x10}
         ELSE GarbageTemps
    ELSE IF b.lowerIdx < NTC_LUT_SIZE /\ b.upperIdx < NTC_LUT_SIZE
    THEN LET cold == NTC_LUT[b.lowerIdx + 1]
             hot  == NTC_LUT[b.upperIdx + 1]
         IN  {applyLinearInterpolation(r, cold.resistance_x10, hot.resistance_x10,
                                       cold.temperature_x10, hot.temperature_x10)}
    ELSE GarbageTemps

\* mutation of IsInvalidResistance: the check is dropped
IsInvalidResistance_Never(r) == FALSE

\* Step0: if (resistance_x10 == 0)
IsInvalidResistance(r) == r = 0

\* a zero resistance is rejected with the sentinel before any search
TempReject ==
    /\ tpc = "call"
    /\ IsInvalidResistance(resistance_x10)
    /\ temperature_x10' = SENTINEL
    /\ tpc' = "done"
    /\ UNCHANGED <<searchVars, resVars, interpVars>>

\* Step1: binarySearchLut(NTC_LUT, resistance_x10, proj, LutOrder::DECREASING) is called
TempSearch ==
    /\ tpc = "call"
    /\ ~IsInvalidResistance(resistance_x10)
    /\ keys' = LutKeys
    /\ target' = resistance_x10
    /\ hint' = "DECREASING"
    /\ order' = "DECREASING"
    /\ spc' = "start"
    /\ tpc' = "search"
    /\ UNCHANGED <<left, right, mid, result, inspections, oobRead>>
    /\ UNCHANGED <<resVars, interpVars, temperature_x10>>

\* the search has returned: Step2 and Step3 give the temperature
TempReturn ==
    /\ tpc = "search"
    /\ spc = "done"
    /\ temperature_x10' \in TemperatureFromBracket(resistance_x10, result)
    /\ tpc' = "done"
    /\ UNCHANGED <<searchVars, resVars, interpVars>>

\* the resistances SpecTemp converts: zero, one, those around every
\* calibration key and the midpoints of adjacent keys
TestResistances ==
    {0, 1}
    \cup {NTC_LUT[i].resistance_x10 + d : i \in 1..NTC_LUT_SIZE, d \in (-Spread)..Spread}
    \cup {(NTC_LUT[i].resistance_x10 + NTC_LUT[i + 1].resistance_x10) \div 2 :
          i \in 1..(NTC_LUT_SIZE - 1)}

\* a call of convertToTemperature_x10 with any of the test resistances
TempCall ==
    /\ fixedResistor_ = 0 /\ adc_raw = 0 /\ divByZero = FALSE /\ rpc = "idle"
    /\ resistance_x10 \in TestResistances
    /\ temperature_x10 = 0 /\ tpc = "call"

----------------------------------------------------------------------------
(* The converter as a function of the resistance, as the pipeline calls it *)

\* the iterations of while (left <= right) from the bounds l, r on: the
\* brackets the search can return, and returns = FALSE for a run that is
\* still in the loop after MaxInspections inspections
RECURSIVE SearchOutcomes(_, _, _, _, _, _, _)
SearchOutcomes(ks, t, ord, l, r, res, fuel) ==
    IF ~(l <= r)
    THEN {[returns |-> TRUE, result |-> FinalBracket(res, l, r, Len(ks))]}
    ELSE IF fuel = 0
    THEN {[returns |-> FALSE, result |-> res]}
    ELSE LET m == MidPoint(l, r) IN
         UNION {IF midKey = t
                THEN {[returns |-> TRUE, result |-> ExactBracket(res, m)]}
                ELSE IF GoLeft(ord, t, midKey)
                THEN SearchOutcomes(ks, t, ord, l, MoveRight(m), res, fuel - 1)
                ELSE SearchOutcomes(ks, t, ord, MoveLeft(m), r, res, fuel - 1) :
                midKey \in ReadKey(ks, m, t)}

\* binarySearchLut(lut, target, proj, order): the outcomes of a whole call
binarySearchLut(ks, t, h) ==
    SearchOutcomes(ks, t, DetectOrder(ks, h), 0, ToSize(Len(ks) - 1),
                   [LutBracket EXCEPT !.outOfRange = TRUE], MaxInspections)

\* convertToTemperature_x10(resistance_x10): the outcomes of a whole call
convertToTemperature_x10(r) ==
    IF IsInvalidResistance(r)
    THEN {[returns |-> TRUE, value |-> SENTINEL]}
    ELSE UNION {IF b.returns
                THEN {[returns |-> TRUE, value |-> v] :
                      v \in TemperatureFromBracket(r, b.result)}
                ELSE {[returns |-> FALSE, value |-> 0]} :
                b \in binarySearchLut(LutKeys, r, "DECREASING")}

----------------------------------------------------------------------------
(* AdcSampler *)

\* the constructor: samples_per_read_((samples_to_average > 0) ? samples_to_average : 1)
NewSamplesPerRead(samples_to_average) ==
    IF samples_to_average > 0 THEN samples_to_average ELSE 1

\* the constructor: settleUs_((settle_us > 0) ? settle_us : 10)
NewSettleUs(settle_us) == IF settle_us > 0 THEN settle_us ELSE 10

\* avr_algorithms::repeat(count, f) calls f count times: it has a call left to
\* make while fewer than count were made
RepeatPending(count, calls) == calls < count

\* static_cast<uint16_t>
ToUint16(x) == x % 65536

\* mutation of SampleAverage: the rounding term is left out
SampleAverage_Truncating(acc, m) ==
    IF m = 1 THEN ToUint16(acc) ELSE ToUint16(acc \div m)

\* Step3: the average of the accumulated samples, rounded to nearest
SampleAverage(acc, m) ==
    IF m = 1 THEN ToUint16(acc) ELSE ToUint16((acc + (m \div 2)) \div m)

\* Step4: return (avg > Adc::MAX_VALUE) ? Adc::MAX_VALUE : avg
ClampRaw(a) == IF a > MAX_VALUE THEN MAX_VALUE ELSE a

\* values analogRead(pin_) gives: a 10-bit conversion result
RawSamples == {10, 20, MAX_VALUE}

\* Step1: one acquisition of the discard loop; the value is dropped
SampleDiscard ==
    /\ apc = "sample"
    /\ RepeatPending(discard_N_first_, Len(acquired))
    /\ \E v \in RawSamples : acquired' = Append(acquired, v)
    /\ UNCHANGED <<samples_per_read_, discard_N_first_, settleUs_, accumulated, avg, apc>>

\* Step2: one acquisition of the averaging loop; the value is accumulated
SampleAccumulate ==
    /\ apc = "sample"
    /\ ~RepeatPending(discard_N_first_, Len(acquired))
    /\ RepeatPending(samples_per_read_, Len(acquired) - discard_N_first_)
    /\ \E v \in RawSamples :
          /\ acquired' = Append(acquired, v)
          /\ accumulated' = accumulated + v
    /\ UNCHANGED <<samples_per_read_, discard_N_first_, settleUs_, avg, apc>>

\* Step3 and Step4: both loops are over, the clamped average is returned
SampleReturn ==
    /\ apc = "sample"
    /\ ~RepeatPending(discard_N_first_, Len(acquired))
    /\ ~RepeatPending(samples_per_read_, Len(acquired) - discard_N_first_)
    /\ avg' = ClampRaw(SampleAverage(accumulated, samples_per_read_))
    /\ apc' = "done"
    /\ UNCHANGED <<samples_per_read_, discard_N_first_, settleUs_, accumulated, acquired>>

\* the settle times given to the constructor
SettleTimes == {0, 50}

\* a sampler constructed with any counts and settle time, entering sample()
SampleCall ==
    /\ \E a \in 0..MaxAverage : samples_per_read_ = NewSamplesPerRead(a)
    /\ discard_N_first_ \in 0..MaxDiscard
    /\ \E u \in SettleTimes : settleUs_ = NewSettleUs(u)
    /\ accumulated = 0 /\ acquired = <<>> /\ avg = 0 /\ apc = "sample"

\* the variables of the sampler while no call is in progress
SampleIdle ==
    /\ samples_per_read_ = 1 /\ discard_N_first_ = 0 /\ settleUs_ = 10
    /\ accumulated = 0 /\ acquired = <<>> /\ avg = 0 /\ apc = "idle"

----------------------------------------------------------------------------
(* EmaFilter<int16_t> *)

\* ---- float: IEEE single precision, a value m * 2^e held as [m, e] with m odd
\* or m = 0, e = 0; every operation rounds to FLT_MANT_DIG bits, ties to even ----
FLT_MANT_DIG == 24

\* the number of bits of n >= 0
RECURSIVE BitLen(_)
BitLen(n) == IF n = 0 THEN 0 ELSE 1 + BitLen(n \div 2)

\* m * 2^e with the trailing zero bits of m moved into the exponent
RECURSIVE FloatOf(_, _)
FloatOf(m, e) ==
    IF m = 0 THEN [m |-> 0, e |-> 0]
    ELSE IF m % 2 = 0 THEN FloatOf(m \div 2, e + 1)
    ELSE [m |-> m, e |-> e]

\* the float m * 2^e, m within the mantissa width.  (Here and below an operand
\* is bound once, x \in {m}, so that it is evaluated once however often it is
\* used.)
Float(m, e) == CHOOSE r \in {FloatOf(x, y) : x \in {m}, y \in {e}} : TRUE

\* the mantissa m0 with the dropped bits rem, half the unit being half: rounded
\* to nearest, a tie to even
FloatNearest(neg, m0, rem, half, e) ==
    CHOOSE r \in
        {Float(IF t > hf \/ (t = hf /\ q % 2 = 1)
               THEN (IF neg THEN -(q + 1) ELSE q + 1)
               ELSE (IF neg THEN -q ELSE q), e) :
         q \in {m0}, t \in {rem}, hf \in {half}} : TRUE

\* (h * 2^k + l) * 2^e with its d lowest bits dropped, if d > 0
FloatDrop(neg, h, l, k, e, d) ==
    IF d <= 0
    THEN Float(IF neg THEN -(IF h = 0 THEN l ELSE h * Pow2(k) + l)
               ELSE (IF h = 0 THEN l ELSE h * Pow2(k) + l), e)
    ELSE IF d <= k
    THEN FloatNearest(neg, h * Pow2(k - d) + (l \div Pow2(d)), l % Pow2(d),
                      Pow2(d - 1), e + d)
    ELSE FloatNearest(neg, h \div Pow2(d - k), (h % Pow2(d - k)) * Pow2(k) + l,
                      Pow2(d - 1), e + d)

\* the float nearest to (H * 2^k + L) * 2^e, 0 <= L < 2^k, negated when neg:
\* the bits beyond the mantissa width are dropped
FloatRound(neg, H, L, k, e) ==
    CHOOSE r \in
        {FloatDrop(neg, h, l, k, e, d) :
         h \in {H}, l \in {L},
         d \in {(IF H > 0 THEN BitLen(H) + k ELSE BitLen(L)) - FLT_MANT_DIG}} : TRUE

\* -a
FloatNeg(a) == [m |-> -a.m, e |-> a.e]

\* hi * 2^j + lo / 2^k, the sum in units of the last bit of lo
FloatSum(hi, lo, j, k) ==
    CHOOSE r \in
        {IF H >= 0 THEN FloatRound(FALSE, H, L, k, lo.e)
         ELSE IF L = 0 THEN FloatRound(TRUE, -H, 0, k, lo.e)
         ELSE FloatRound(TRUE, -H - 1, Pow2(k) - L, k, lo.e) :
         H \in {hi.m * Pow2(j) + (lo.m \div Pow2(k))}, L \in {lo.m % Pow2(k)}} : TRUE

\* hi + lo for hi.e >= lo.e, neither zero: the exact sum, rounded.  hi is
\* shifted down by j bits, as far as its mantissa allows, and stands k bits
\* above lo; a lo more than 25 bits below the last bit of hi does not change
\* the rounded sum
FloatAddOrdered(hi, lo) ==
    CHOOSE r \in
        {IF hi.e - lo.e - j > FLT_MANT_DIG + 1 THEN hi
         ELSE FloatSum(hi, lo, j, hi.e - lo.e - j) :
         j \in {Min(hi.e - lo.e,
                    FLT_MANT_DIG - BitLen(IF hi.m < 0 THEN -hi.m ELSE hi.m))}} : TRUE

\* a + b
FloatAdd(a, b) ==
    CHOOSE r \in
        {IF x.m = 0 THEN y
         ELSE IF y.m = 0 THEN x
         ELSE IF x.e >= y.e THEN FloatAddOrdered(x, y) ELSE FloatAddOrdered(y, x) :
         x \in {a}, y \in {b}} : TRUE

\* a * p for a 16-bit integer p converted to float (the conversion is exact):
\* the exact product, taken in two halves X, Y of the mantissa, rounded
FloatMulInt(a, p) ==
    CHOOSE r \in
        {FloatRound((a.m < 0) # (p < 0), X + (Y \div 4096), Y % 4096, 12, a.e) :
         X \in {((IF a.m < 0 THEN -a.m ELSE a.m) \div 4096) * (IF p < 0 THEN -p ELSE p)},
         Y \in {((IF a.m < 0 THEN -a.m ELSE a.m) % 4096) * (IF p < 0 THEN -p ELSE p)}} : TRUE

\* a < b
FloatLess(a, b) == FloatAdd(a, FloatNeg(b)).m < 0

\* static_cast<int16_t>(a): the fraction is discarded
FloatToInt16(a) ==
    CHOOSE r \in
        {IF x.e >= 0 THEN ToInt16(x.m * Pow2(x.e))
         ELSE IF -x.e > 30 THEN 0
         ELSE ToInt16(TruncDiv(x.m, Pow2(-x.e))) :
         x \in {a}} : TRUE

\* the alphas n / AlphaDen
AlphaDen == Pow2(AlphaBits)
Alpha(n) == Float(n, -AlphaBits)
FloatOne == Float(1, 0)
FloatHalf == Float(1, -1)

\* Filtering::EMA_ALPHA_DEFAULT = 0.15f
EMA_ALPHA_DEFAULT == Float(5033165, -25)

\* 0.1f
AlphaTenth == Float(13421773, -27)

\* begin(): an alpha_ below 0 or above 1 is replaced by 0.5
EmaBeginAlpha(a) ==
    IF FloatLess(a, Float(0, 0)) \/ FloatLess(FloatOne, a) THEN FloatHalf ELSE a

\* mutation of EmaValue: the two weights are exchanged
EmaValue_SwappedWeights(a, prev, x) ==
    FloatToInt16(FloatAdd(FloatMulInt(a, prev),
                          FloatMulInt(FloatAdd(FloatOne, FloatNeg(a)), x)))

\* static_cast<T>((1 - alpha_) * prev_value_ + alpha_ * new_value): float
\* arithmetic, and the conversion to int16_t truncates toward zero
EmaValue(a, prev, x) ==
    FloatToInt16(FloatAdd(FloatMulInt(FloatAdd(FloatOne, FloatNeg(a)), prev),
                          FloatMulInt(a, x)))

\* begin()
EmaBegin ==
    /\ epc = "constructed"
    /\ alpha_' = EmaBeginAlpha(alpha_)
    /\ epc' = "begun"
    /\ UNCHANGED <<prev_value_, new_value, filtered>>

\* the values given to apply
FilterInputs == {-400, -1, 0, 7, 250, 400}

\* apply(new_value); setup() runs begin() on every filter before the first read
EmaApply ==
    /\ epc \in {"begun", "applied"}
    /\ \E x \in FilterInputs :
          /\ new_value' = x
          /\ prev_value_' = EmaValue(alpha_, prev_value_, x)
          /\ filtered' = EmaValue(alpha_, prev_value_, x)
    /\ epc' = "applied"
    /\ UNCHANGED alpha_

\* the initial values given to the constructor
EmaInitialValues == {-400, 0, 7, 400}

\* the alphas given to the constructor: the multiples of 1 / AlphaDen from
\* -1 / AlphaDen to 1 + 1 / AlphaDen, the default of Config.h and 0.1f
EmaAlphas ==
    {Alpha(n) : n \in (-1)..(AlphaDen + 1)} \cup {EMA_ALPHA_DEFAULT, AlphaTenth}

\* a filter constructed with any alpha from -1/AlphaDen to 1 + 1/AlphaDen and
\* any initial value
EmaCall ==
    /\ alpha_ \in EmaAlphas
    /\ prev_value_ \in EmaInitialValues
    /\ new_value = 0 /\ filtered = 0 /\ epc = "constructed"

\* apply(new_value) called again with the input of the previous calls: the
\* caller feeds the filter a constant input
EmaApplySame ==
    /\ epc \in {"begun", "applied"}
    /\ prev_value_' = EmaValue(alpha_, prev_value_, new_value)
    /\ filtered' = EmaValue(alpha_, prev_value_, new_value)
    /\ epc' = "applied"
    /\ UNCHANGED <<alpha_, new_value>>

\* a filter constructed with any alpha and any initial value; new_value holds
\* the constant input of all the calls to come
EmaConstCall ==
    /\ alpha_ \in EmaAlphas
    /\ prev_value_ \in EmaInitialValues
    /\ new_value \in FilterInputs
    /\ filtered = 0 /\ epc = "constructed"

\* the variables of the filter while there is none
EmaIdle ==
    /\ alpha_ = Float(0, 0) /\ prev_value_ = 0 /\ new_value = 0 /\ filtered = 0
    /\ epc = "idle"

----------------------------------------------------------------------------
(* SmaFilter<int16_t> *)

\* begin(): if (window == 0) window_ = 1, the undeclared name window read as
\* the member window_
SmaBeginWindow(w) == IF w = 0 THEN 1 ELSE w

\* what the division by a zero window can leave as the quotient
SmaDivByZeroValues == {-1, 0, 32767}

\* apply(new_val): prev_avg + (new_val - prev_avg) / static_cast<T>(window_size),
\* the division truncating, the result stored in T
SmaValue(w, prev, x) ==
    IF w = 0
    THEN {ToInt16(prev + q) : q \in SmaDivByZeroValues}
    ELSE {ToInt16(prev + TruncDiv(x - prev, w))}

\* begin(): returns at once when initialize_ reads as true, otherwise
\* validates the window; initialize_ is not written
SmaBegin ==
    /\ mpc = "constructed"
    /\ window_' = IF initialize_ THEN window_ ELSE SmaBeginWindow(window_)
    /\ mpc' = "begun"
    /\ UNCHANGED <<prev_avg_, initialize_, new_val, averaged>>

\* apply(new_val) on a filter that has begun; after a division by zero the
\* behaviour of the program is undefined and the filter is followed no further
SmaApply ==
    /\ mpc \in {"begun", "applied"}
    /\ \E x \in FilterInputs :
       \E y \in SmaValue(window_, prev_avg_, x) :
          /\ new_val' = x
          /\ prev_avg_' = y
          /\ averaged' = y
    /\ mpc' = IF window_ = 0 THEN "undefined" ELSE "applied"
    /\ UNCHANGED <<window_, initialize_>>

\* the initial values given to the constructor
SmaInitialValues == {-400, 0, 7}

\* a filter constructed with any window in 0..MaxWindow and any initial value;
\* the constructor leaves initialize_ uninitialised, so it reads as either value
SmaCall ==
    /\ window_ \in 0..MaxWindow
    /\ prev_avg_ \in SmaInitialValues
    /\ initialize_ \in BOOLEAN
    /\ new_val = 0 /\ averaged = 0 /\ mpc = "constructed"

\* the variables of the moving-average filter while there is none
SmaIdle ==
    /\ window_ = 1 /\ prev_avg_ = 0 /\ initialize_ = FALSE
    /\ new_val = 0 /\ averaged = 0 /\ mpc = "idle"

----------------------------------------------------------------------------
(* TemperatureSensor *)

\* the null pointer
NULL == "nullptr"

\* the stage objects of the program
SAMPLER == "sampler"
RESISTANCE_CONVERTER == "resistanceConverter"
TEMPERATURE_CONVERTER == "temperatureConverter"
FILTER == "filter"

\* the four stage pointers of the pipeline
StagePointers == <<sampler_, resistanceConverter_, temperatureConverter_, filter_>>

\* mutation of IsReady: the temperature converter is not looked at
IsReady_NoTemperatureConverter(s, rc, tc) == s # NULL /\ rc # NULL

\* !( !sampler_ || !resistanceConverter_ || !temperatureConverter_ )
IsReady(s, rc, tc) == s # NULL /\ rc # NULL /\ tc # NULL

\* mutation of ReadResult: the converted temperature is returned as it is
ReadResult_Unfiltered(f, temperature, filterOutput) == temperature

\* Step4: if (filter_) temperature_x10 = filter_->apply(temperature_x10); return
ReadResult(f, temperature, filterOutput) ==
    IF f # NULL THEN filterOutput ELSE temperature

\* addSampler(sampler)
AddSampler ==
    /\ ppc \in {"config", "returned"}
    /\ \E ptr \in {NULL, SAMPLER} : sampler_' = ptr
    /\ ppc' = "config"
    /\ UNCHANGED <<resistanceConverter_, temperatureConverter_, filter_, built,
                   builtStages, stages, returned, reads>>
    /\ UNCHANGED <<resVars, tempVars, emaVars>>

\* addResistanceConverter(resistanceConverter)
AddResistanceConverter ==
    /\ ppc \in {"config", "returned"}
    /\ \E ptr \in {NULL, RESISTANCE_CONVERTER} : resistanceConverter_' = ptr
    /\ ppc' = "config"
    /\ UNCHANGED <<sampler_, temperatureConverter_, filter_, built,
                   builtStages, stages, returned, reads>>
    /\ UNCHANGED <<resVars, tempVars, emaVars>>

\* addTemperatureConverter(temperatureConverter)
AddTemperatureConverter ==
    /\ ppc \in {"config", "returned"}
    /\ \E ptr \in {NULL, TEMPERATURE_CONVERTER} : temperatureConverter_' = ptr
    /\ ppc' = "config"
    /\ UNCHANGED <<sampler_, resistanceConverter_, filter_, built,
                   builtStages, stages, returned, reads>>
    /\ UNCHANGED <<resVars, tempVars, emaVars>>

\* addFilter(filter)
AddFilter ==
    /\ ppc \in {"config", "returned"}
    /\ \E ptr \in {NULL, FILTER} : filter_' = ptr
    /\ ppc' = "config"
    /\ UNCHANGED <<sampler_, resistanceConverter_, temperatureConverter_, built,
                   builtStages, stages, returned, reads>>
    /\ UNCHANGED <<resVars, tempVars, emaVars>>

\* build(): logs the configuration and returns *this; no field is written
\* (built and builtStages record the call)
Build ==
    /\ ppc \in {"config", "returned"}
    /\ built' = TRUE
    /\ builtStages' = StagePointers
    /\ ppc' = "config"
    /\ UNCHANGED <<sampler_, resistanceConverter_, temperatureConverter_, filter_,
                   stages, returned, reads>>
    /\ UNCHANGED <<resVars, tempVars, emaVars>>

\* the averaged raw values the sampler stage returns: zero, conversions below,
\* on and between the calibration keys, one above them and the saturated value
PipeRaws == {0, 8, 341, 500, 1000, MAX_VALUE}

\* readTemperature_x10(): the whole call
ReadTemperature_x10 ==
    /\ ppc \in {"config", "returned"}
    /\ reads < MaxReads
    /\ reads' = reads + 1
    /\ UNCHANGED <<sampler_, resistanceConverter_, temperatureConverter_, filter_,
                   built, builtStages, fixedResistor_, rpc, tpc, alpha_, epc>>
    /\ IF ~IsReady(sampler_, resistanceConverter_, temperatureConverter_)
       THEN /\ returned' = SENTINEL
            /\ stages' = <<>>
            /\ ppc' = "returned"
            /\ UNCHANGED <<adc_raw, resistance_x10, divByZero, temperature_x10,
                           prev_value_, new_value, filtered>>
       ELSE \E raw \in PipeRaws :
            \E res \in convertToResistance_x10(raw, fixedResistor_) :
               /\ adc_raw' = raw
               /\ resistance_x10' = res.value
               /\ divByZero' = res.divByZero
               /\ IF res.value = 0
                  THEN /\ returned' = SENTINEL
                       /\ stages' = <<sampler_, resistanceConverter_>>
                       /\ ppc' = "returned"
                       /\ UNCHANGED <<temperature_x10, prev_value_, new_value, filtered>>
                  ELSE \E t \in convertToTemperature_x10(res.value) :
                       IF ~t.returns
                       THEN /\ stages' = <<sampler_, resistanceConverter_,
                                           temperatureConverter_>>
                            /\ ppc' = "hung"
                            /\ UNCHANGED <<temperature_x10, returned, prev_value_,
                                           new_value, filtered>>
                       ELSE /\ temperature_x10' = t.value
                            /\ ppc' = "returned"
                            /\ IF t.value = SENTINEL
                               THEN /\ returned' = SENTINEL
                                    /\ stages' = <<sampler_, resistanceConverter_,
                                                   temperatureConverter_>>
                                    /\ UNCHANGED <<prev_value_, new_value, filtered>>
                               ELSE IF filter_ # NULL
                               THEN /\ new_value' = t.value
                                    /\ prev_value_' = EmaValue(alpha_, prev_value_, t.value)
                                    /\ filtered' = EmaValue(alpha_, prev_value_, t.value)
                                    /\ returned' = ReadResult(filter_, t.value,
                                                      EmaValue(alpha_, prev_value_, t.value))
                                    /\ stages' = <<sampler_, resistanceConverter_,
                                                   temperatureConverter_, filter_>>
                               ELSE /\ returned' = ReadResult(filter_, t.value, t.value)
                                    /\ stages' = <<sampler_, resistanceConverter_,
                                                   temperatureConverter_>>
                                    /\ UNCHANGED <<prev_value_, new_value, filtered>>

\* a pipeline just constructed (all four pointers null), next to a divider of
\* 1000 ohms, the LUT converter and a begun filter constructed with
\* EmaFilter<int16_t>(alpha), alpha one of 1/2 and 1
PipeCall ==
    /\ sampler_ = NULL /\ resistanceConverter_ = NULL
    /\ temperatureConverter_ = NULL /\ filter_ = NULL
    /\ built = FALSE /\ builtStages = <<NULL, NULL, NULL, NULL>>
    /\ stages = <<>> /\ returned = 0 /\ reads = 0 /\ ppc = "config"
    /\ fixedResistor_ = NewFixedResistor(1000)
    /\ adc_raw = 0 /\ resistance_x10 = 0 /\ divByZero = FALSE /\ rpc = "idle"
    /\ TempIdle
    /\ alpha_ \in {EmaBeginAlpha(FloatHalf), EmaBeginAlpha(FloatOne)}
    /\ prev_value_ = 0 /\ new_value = 0 /\ filtered = 0 /\ epc = "begun"

\* the variables of the pipeline while there is none
PipeIdle ==
    /\ sampler_ = NULL /\ resistanceConverter_ = NULL
    /\ temperatureConverter_ = NULL /\ filter_ = NULL
    /\ built = FALSE /\ builtStages = <<NULL, NULL, NULL, NULL>>
    /\ stages = <<>> /\ returned = 0 /\ reads = 0 /\ ppc = "idle"

----------------------------------------------------------------------------
(* The two pipelines of the example program *)

\* the two TemperatureSensor objects
Channels == {"fridge", "evaporator"}

\* readTemperature_x10() of a pipeline with all four stages, the divider
\* fixedResistor and a begun filter of factor a and state prev: the outcomes of
\* the whole call, [returns, value, prev] with the value returned and the state
\* the filter is left in; returns = FALSE for a call whose table search does
\* not come back
ReadOutcomes(raw, fixedResistor, a, prev) ==
    UNION {IF res.value = 0
           THEN {[returns |-> TRUE, value |-> SENTINEL, prev |-> prev]}
           ELSE {IF ~t.returns
                 THEN [returns |-> FALSE, value |-> 0, prev |-> prev]
                 ELSE IF t.value = SENTINEL
                 THEN [returns |-> TRUE, value |-> SENTINEL, prev |-> prev]
                 ELSE [returns |-> TRUE, value |-> EmaValue(a, prev, t.value),
                       prev |-> EmaValue(a, prev, t.value)] :
                 t \in convertToTemperature_x10(res.value)} :
           res \in convertToResistance_x10(raw, fixedResistor)}

\* the averaged raw values the two samplers deliver: out of range, the last
\* key of the table, inside a bracket, beyond the first key, full scale
ChanRaws == {0, 8, 38, 500, MAX_VALUE}

\* one readTemperature_x10() of the pipeline c; loop() is a single thread, so
\* a read that does not come back stops the reads of both pipelines
ReadChannel(c) ==
    /\ ch_hung = "none"
    /\ Len(ch_samples[c]) < MaxChannelReads
    /\ \E raw \in ChanRaws :
       \E o \in ReadOutcomes(raw, fixedResistor_, alpha_, ch_prev[c]) :
          /\ ch_samples' = [ch_samples EXCEPT ![c] = Append(@, raw)]
          /\ ch_prev' = [ch_prev EXCEPT ![c] = o.prev]
          /\ IF o.returns
             THEN /\ ch_returned' = [ch_returned EXCEPT ![c] = Append(@, o.value)]
                  /\ UNCHANGED ch_hung
             ELSE /\ ch_hung' = c
                  /\ UNCHANGED ch_returned
    /\ UNCHANGED <<resVars, emaVars>>

\* the program after setup(): the shared converter of the default pull-up, the
\* shared table converter, and for each pipeline a sampler and a begun filter
\* EmaFilter<int16_t>(EMA_ALPHA_DEFAULT) with the initial value 0
ChanCall ==
    /\ fixedResistor_ = NewFixedResistor(PULLUP_FIXED_RESISTOR_OHMS)
    /\ adc_raw = 0 /\ resistance_x10 = 0 /\ divByZero = FALSE /\ rpc = "idle"
    /\ alpha_ = EmaBeginAlpha(EMA_ALPHA_DEFAULT)
    /\ prev_value_ = 0 /\ new_value = 0 /\ filtered = 0 /\ epc = "begun"
    /\ ch_prev = [c \in Channels |-> 0]
    /\ ch_samples = [c \in Channels |-> <<>>]
    /\ ch_returned = [c \in Channels |-> <<>>]
    /\ ch_hung = "none"

\* the variables of the two pipelines while there are none
ChanIdle ==
    /\ ch_prev = [c \in Channels |-> 0]
    /\ ch_samples = [c \in Channels |-> <<>>]
    /\ ch_returned = [c \in Channels |-> <<>>]
    /\ ch_hung = "none"

----------------------------------------------------------------------------
(* Specifications *)

InitSearch == SearchCall /\ ResIdle /\ InterpIdle /\ TempIdle
              /\ SampleIdle /\ EmaIdle /\ PipeIdle
              /\ SmaIdle /\ ChanIdle
NextSearch ==
    \/ SearchStart /\ UNCHANGED <<resVars, interpVars, tempVars, sampleVars, emaVars, pipeVars,
                 smaVars, chanVars>>
    \/ SearchLoop /\ UNCHANGED <<resVars, interpVars, tempVars, sampleVars, emaVars, pipeVars,
                 smaVars, chanVars>>
    \/ SearchFinish /\ UNCHANGED <<resVars, interpVars, tempVars, sampleVars, emaVars, pipeVars,
                 smaVars, chanVars>>
SpecSearch == InitSearch /\ [][NextSearch]_vars

InitRes == ResCall /\ SearchIdle /\ InterpIdle /\ TempIdle
           /\ SampleIdle /\ EmaIdle /\ PipeIdle
              /\ SmaIdle /\ ChanIdle
NextRes == ConvertToResistance
           /\ UNCHANGED <<searchVars, interpVars, tempVars, sampleVars, emaVars, pipeVars,
                 smaVars, chanVars>>
SpecRes == InitRes /\ [][NextRes]_vars

InitInterp == InterpCall /\ SearchIdle /\ ResIdle /\ TempIdle
              /\ SampleIdle /\ EmaIdle /\ PipeIdle
              /\ SmaIdle /\ ChanIdle
NextInterp == InterpApply
              /\ UNCHANGED <<searchVars, resVars, tempVars, sampleVars, emaVars, pipeVars,
                 smaVars, chanVars>>
SpecInterp == InitInterp /\ [][NextInterp]_vars

InitTemp == TempCall /\ SearchIdle /\ InterpIdle /\ SampleIdle /\ EmaIdle /\ PipeIdle
              /\ SmaIdle /\ ChanIdle
NextTemp ==
    \/ TempReject /\ UNCHANGED <<sampleVars, emaVars, pipeVars,
                 smaVars, chanVars>>
    \/ TempSearch /\ UNCHANGED <<sampleVars, emaVars, pipeVars,
                 smaVars, chanVars>>
    \/ SearchStart /\ UNCHANGED <<resVars, interpVars, tempVars, sampleVars, emaVars, pipeVars,
                 smaVars, chanVars>>
    \/ SearchLoop /\ UNCHANGED <<resVars, interpVars, tempVars, sampleVars, emaVars, pipeVars,
                 smaVars, chanVars>>
    \/ SearchFinish /\ UNCHANGED <<resVars, interpVars, tempVars, sampleVars, emaVars, pipeVars,
                 smaVars, chanVars>>
    \/ TempReturn /\ UNCHANGED <<sampleVars, emaVars, pipeVars,
                 smaVars, chanVars>>
SpecTemp == InitTemp /\ [][NextTemp]_vars

InitSample == SampleCall /\ SearchIdle /\ ResIdle /\ InterpIdle /\ TempIdle
              /\ EmaIdle /\ PipeIdle
              /\ SmaIdle /\ ChanIdle
NextSample ==
    \/ SampleDiscard /\ UNCHANGED <<searchVars, resVars, interpVars, tempVars, emaVars, pipeVars,
                 smaVars, chanVars>>
    \/ SampleAccumulate /\ UNCHANGED <<searchVars, resVars, interpVars, tempVars, emaVars, pipeVars,
                 smaVars, chanVars>>
    \/ SampleReturn /\ UNCHANGED <<searchVars, resVars, interpVars, tempVars, emaVars, pipeVars,
                 smaVars, chanVars>>
SpecSample == InitSample /\ [][NextSample]_vars

InitEma == EmaCall /\ SearchIdle /\ ResIdle /\ InterpIdle /\ TempIdle
           /\ SampleIdle /\ PipeIdle
              /\ SmaIdle /\ ChanIdle
NextEma ==
    \/ EmaBegin /\ UNCHANGED <<searchVars, resVars, interpVars, tempVars, sampleVars, pipeVars,
                 smaVars, chanVars>>
    \/ EmaApply /\ UNCHANGED <<searchVars, resVars, interpVars, tempVars, sampleVars, pipeVars,
                 smaVars, chanVars>>
SpecEma == InitEma /\ [][NextEma]_vars

InitPipe == PipeCall /\ SearchIdle /\ InterpIdle /\ SampleIdle
              /\ SmaIdle /\ ChanIdle
NextPipe ==
    \/ AddSampler /\ UNCHANGED <<searchVars, interpVars, sampleVars,
                 smaVars, chanVars>>
    \/ AddResistanceConverter /\ UNCHANGED <<searchVars, interpVars, sampleVars,
                 smaVars, chanVars>>
    \/ AddTemperatureConverter /\ UNCHANGED <<searchVars, interpVars, sampleVars,
                 smaVars, chanVars>>
    \/ AddFilter /\ UNCHANGED <<searchVars, interpVars, sampleVars,
                 smaVars, chanVars>>
    \/ Build /\ UNCHANGED <<searchVars, interpVars, sampleVars,
                 smaVars, chanVars>>
    \/ ReadTemperature_x10 /\ UNCHANGED <<searchVars, interpVars, sampleVars,
                 smaVars, chanVars>>
SpecPipe == InitPipe /\ [][NextPipe]_vars

InitSma == SmaCall /\ SearchIdle /\ ResIdle /\ InterpIdle /\ TempIdle
           /\ SampleIdle /\ EmaIdle /\ PipeIdle /\ ChanIdle
NextSma ==
    \/ SmaBegin /\ UNCHANGED <<searchVars, resVars, interpVars, tempVars, sampleVars,
                               emaVars, pipeVars, chanVars>>
    \/ SmaApply /\ UNCHANGED <<searchVars, resVars, interpVars, tempVars, sampleVars,
                               emaVars, pipeVars, chanVars>>
SpecSma == InitSma /\ [][NextSma]_vars

\* EmaFilter fed a constant input for ever: loop() reads the sensor on every
\* pass and never ends, so a call that can be made is made
InitEmaConst == EmaConstCall /\ SearchIdle /\ ResIdle /\ InterpIdle /\ TempIdle
                /\ SampleIdle /\ PipeIdle /\ SmaIdle /\ ChanIdle
NextEmaConst ==
    \/ EmaBegin /\ UNCHANGED <<searchVars, resVars, interpVars, tempVars, sampleVars,
                                pipeVars, smaVars, chanVars>>
    \/ EmaApplySame /\ UNCHANGED <<searchVars, resVars, interpVars, tempVars,
                                    sampleVars, pipeVars, smaVars, chanVars>>
SpecEmaConst == InitEmaConst /\ [][NextEmaConst]_vars /\ WF_vars(NextEmaConst)

\* the two pipelines of the example program, read in any order
InitChan == ChanCall /\ SearchIdle /\ InterpIdle /\ TempIdle
            /\ SampleIdle /\ PipeIdle /\ SmaIdle
NextChan ==
    \/ ReadChannel("fridge") /\ UNCHANGED <<searchVars, interpVars, tempVars,
                                            sampleVars, pipeVars, smaVars>>
    \/ ReadChannel("evaporator") /\ UNCHANGED <<searchVars, interpVars, tempVars,
                                                sampleVars, pipeVars, smaVars>>
SpecChan == InitChan /\ [][NextChan]_vars

----------------------------------------------------------------------------
(* Properties of binarySearchLut, checked under SpecSearch *)

\* the order in which a strictly monotonic table is sorted
TableOrder(ks) == IF ks[1] < ks[2] THEN "INCREASING" ELSE "DECREASING"

\* binarySearchLut has returned from a call made with the table's own order
ReturnedMatching == spc = "done" /\ hint = TableOrder(keys)

\* the target lies beyond the first entry of the table
BeyondFirst(ks, t) == IF TableOrder(ks) = "DECREASING" THEN t > ks[1] ELSE t < ks[1]

\* the target lies beyond the last entry of the table
BeyondLast(ks, t) ==
    IF TableOrder(ks) = "DECREASING" THEN t < ks[Len(ks)] ELSE t > ks[Len(ks)]

\* the target lies strictly between the keys at indices i and i+1 (0-based)
Between(ks, t, i) ==
    IF TableOrder(ks) = "DECREASING"
    THEN ks[i + 1] > t /\ t > ks[i + 2]
    ELSE ks[i + 1] < t /\ t < ks[i + 2]

FloorLog2(n) == CHOOSE k \in 0..n : Pow2(k) <= n /\ n < Pow2(k + 1)

\* C1: a target beyond the first entry, searched with the matching order,
\* returns the bracket [0, 1] with clamped = true and foundExact = false.
C1_BeyondFirstClamped ==
    (ReturnedMatching /\ BeyondFirst(keys, target)) =>
        /\ result.lowerIdx = 0
        /\ result.upperIdx = 1
        /\ result.clamped
        /\ ~result.foundExact

\* C2: a target beyond the last entry, searched with the matching order,
\* returns the bracket [N-2, N-1] with clamped = true and foundExact = false.
C2_BeyondLastClamped ==
    (ReturnedMatching /\ BeyondLast(keys, target)) =>
        /\ result.lowerIdx = Len(keys) - 2
        /\ result.upperIdx = Len(keys) - 1
        /\ result.clamped
        /\ ~result.foundExact

\* a search beyond the last entry of a table of more than two keys has returned
C2_Witness ==
    /\ ReturnedMatching /\ BeyondLast(keys, target) /\ Len(keys) > 2
    /\ result.lowerIdx = Len(keys) - 2 /\ result.clamped

\* C3: a target equal to the key at index i, searched with the matching order,
\* returns foundExact = true with exactIdx = lowerIdx = upperIdx = i,
\* outOfRange = false and clamped = false.
C3_ExactHit ==
    \A i \in 0..(Len(keys) - 1) :
        (ReturnedMatching /\ keys[i + 1] = target) =>
            /\ result.foundExact
            /\ result.exactIdx = i
            /\ result.lowerIdx = i
            /\ result.upperIdx = i
            /\ ~result.outOfRange
            /\ ~result.clamped

\* an exact hit on the last key of a decreasing table of more than two keys
C3_Witness ==
    /\ ReturnedMatching /\ hint = "DECREASING" /\ Len(keys) > 2
    /\ keys[Len(keys)] = target
    /\ result.foundExact /\ result.exactIdx = Len(keys) - 1

\* C4: a target strictly between the keys at i and i+1, searched with the
\* matching order, returns lowerIdx = i, upperIdx = i+1 with foundExact,
\* outOfRange and clamped all false.
C4_InteriorBracket ==
    \A i \in 0..(Len(keys) - 2) :
        (ReturnedMatching /\ Between(keys, target, i)) =>
            /\ result.lowerIdx = i
            /\ result.upperIdx = i + 1
            /\ ~result.foundExact
            /\ ~result.outOfRange
            /\ ~result.clamped

\* an interior target bracketed by the last two keys of a table of four keys
C4_Witness ==
    /\ ReturnedMatching /\ Len(keys) = 4 /\ Between(keys, target, 2)
    /\ result.lowerIdx = 2 /\ result.upperIdx = 3 /\ ~result.outOfRange

\* C5: on every table, target and order hint the loop inspects at most
\* floor(log2(N)) + 1 midpoints before the search returns.
C5_InspectionBound ==
    spc \in {"loop", "done"} => inspections <= FloorLog2(Len(keys)) + 1

C26_IndicesInsideTable ==
    spc \in {"loop", "done"} =>
        /\ left <= Len(keys)
        /\ right <= Len(keys) - 1
        /\ (inspections > 0 => mid <= Len(keys) - 1)
        /\ ~oobRead

----------------------------------------------------------------------------
(* Properties of convertToResistance_x10, checked under SpecRes *)

\* convertToResistance_x10 has returned for a raw value strictly inside the range
ReturnedInterior == rpc = "done" /\ 0 < adc_raw /\ adc_raw < MAX_VALUE

\* C6: convertToResistance_x10(0) and convertToResistance_x10(MAX_VALUE) return 0
\* and divide nothing by zero.
C6_InvalidRawGivesZero ==
    (rpc = "done" /\ adc_raw \in {0, MAX_VALUE}) =>
        (resistance_x10 = 0 /\ ~divByZero)

\* C7 as claimed: for every non-zero divider resistance and every interior raw
\* value the resistance is positive and strictly greater than the resistance
\* of every smaller interior raw value.
C7_PositiveStrictlyIncreasing ==
    ReturnedInterior =>
        /\ resistance_x10 > 0
        /\ \A smaller \in 1..(adc_raw - 1) :
              ResistanceFormula(smaller, fixedResistor_) < resistance_x10

\* C7 as amended: for every non-zero divider resistance and every interior raw
\* value the resistance is non-negative and not smaller than the resistance of
\* any smaller interior raw value; with a divider of at least 103 ohms it is
\* positive and strictly greater.
C7_MonotoneResistance ==
    ReturnedInterior =>
        /\ resistance_x10 >= 0
        /\ \A smaller \in 1..(adc_raw - 1) :
              ResistanceFormula(smaller, fixedResistor_) <= resistance_x10
        /\ fixedResistor_ >= 103 =>
              /\ resistance_x10 > 0
              /\ \A smaller \in 1..(adc_raw - 1) :
                    ResistanceFormula(smaller, fixedResistor_) < resistance_x10

\* the default divider has converted the mid-scale raw value 512
C7_Witness ==
    /\ ReturnedInterior /\ adc_raw = 512
    /\ fixedResistor_ = PULLUP_FIXED_RESISTOR_OHMS
    /\ resistance_x10 = 127248

\* C27: for every raw value in 1..1022 and every 16-bit divider resistance the
\* product raw * fixedResistor_ * 10 is below 2^32, and the value returned is
\* the formula evaluated in unbounded integers.
C27_NoOverflow ==
    ReturnedInterior =>
        /\ (adc_raw * fixedResistor_ * 10) \div 65536 < 65536
        /\ resistance_x10 = (adc_raw * fixedResistor_ * 10) \div (MAX_VALUE - adc_raw)

\* the largest divider has converted the largest interior raw value: the
\* product is 669767700, above 2^16 and below 2^32
C27_Witness ==
    /\ ReturnedInterior /\ adc_raw = MAX_VALUE - 1 /\ fixedResistor_ = 65535
    /\ resistance_x10 = 669767700

----------------------------------------------------------------------------
(* Properties of applyLinearInterpolation, checked under SpecInterp *)

\* the bracket values lie inside the temperature span of the calibration table
ValuesInSpan ==
    /\ LUT_TEMPERATURE_MIN_C * 10 <= t_cold_x10 /\ t_cold_x10 <= LUT_TEMPERATURE_MAX_C * 10
    /\ LUT_TEMPERATURE_MIN_C * 10 <= t_hot_x10 /\ t_hot_x10 <= LUT_TEMPERATURE_MAX_C * 10

\* the target lies between the two bracket keys, whichever is the larger
TargetBetweenKeys ==
    \/ r_hot_x10 <= r_measured_x10 /\ r_measured_x10 <= r_cold_x10
    \/ r_cold_x10 <= r_measured_x10 /\ r_measured_x10 <= r_hot_x10

\* lowValue + (highValue - lowValue) * (lowKey - target) / (lowKey - highKey)
\* in unbounded integers, the division truncating
ExactInterpolation ==
    t_cold_x10 + TruncDiv((t_hot_x10 - t_cold_x10) * (r_cold_x10 - r_measured_x10),
                          r_cold_x10 - r_hot_x10)

C10_EndpointExact ==
    (ipc = "done" /\ r_cold_x10 # r_hot_x10 /\ ValuesInSpan) =>
        /\ r_measured_x10 = r_cold_x10 => t_returned = t_cold_x10
        /\ r_measured_x10 = r_hot_x10 => t_returned = t_hot_x10

\* the high key of an ascending bracket has returned the high value
C10_Witness ==
    /\ ipc = "done" /\ r_cold_x10 < r_hot_x10 /\ r_measured_x10 = r_hot_x10
    /\ ValuesInSpan /\ t_cold_x10 # t_hot_x10
    /\ t_returned = t_hot_x10

\* C11: a bracket whose two keys are equal returns the low (cold) value for
\* every target, and the call evaluates no division.
C11_DegenerateReturnsLow ==
    (ipc = "done" /\ r_cold_x10 = r_hot_x10) =>
        (t_returned = t_cold_x10 /\ ~idivided)

\* a degenerate bracket with different values, the low one outside the table's
\* span, called with a target away from its key
C11_Witness ==
    /\ ipc = "done" /\ r_cold_x10 = r_hot_x10 /\ r_measured_x10 # r_cold_x10
    /\ t_cold_x10 = -500 /\ t_hot_x10 = 250
    /\ t_returned = -500 /\ ~idivided

\* the smaller and the larger of the table's first and last temperatures
TableTmin == Min(NTC_LUT[1].temperature_x10, NTC_LUT[NTC_LUT_SIZE].temperature_x10)
TableTmax ==
    IF NTC_LUT[1].temperature_x10 > NTC_LUT[NTC_LUT_SIZE].temperature_x10
    THEN NTC_LUT[1].temperature_x10 ELSE NTC_LUT[NTC_LUT_SIZE].temperature_x10

\* the raw interpolated value of the call that has returned
RawInterpolated ==
    InterpolatedRaw(r_measured_x10, r_cold_x10, r_hot_x10, t_cold_x10, t_hot_x10)

\* C22: for distinct bracket keys the value returned is the raw interpolated
\* value limited to [Tmin, Tmax]: Tmin for a raw value below Tmin, Tmax for one
\* above Tmax, the raw value itself inside the range.
C22_ClampedToTableRange ==
    (ipc = "done" /\ r_cold_x10 # r_hot_x10) =>
        /\ RawInterpolated < TableTmin => t_returned = TableTmin
        /\ RawInterpolated > TableTmax => t_returned = TableTmax
        /\ (TableTmin <= RawInterpolated /\ RawInterpolated <= TableTmax) =>
              t_returned = RawInterpolated

----------------------------------------------------------------------------
(* Properties of convertToTemperature_x10, checked under SpecTemp *)

\* C8: a non-zero resistance above the table's largest key returns the
\* temperature of the coldest entry NTC_LUT[0], one below the table's smallest
\* key returns the temperature of the hottest entry NTC_LUT[N-1], and neither
\* returns the sentinel.
C8_OutOfRangeClampsToEdge ==
    (tpc = "done" /\ resistance_x10 # 0) =>
        /\ resistance_x10 > NTC_LUT[1].resistance_x10 =>
              (temperature_x10 = NTC_LUT[1].temperature_x10 /\ temperature_x10 # SENTINEL)
        /\ resistance_x10 < NTC_LUT[NTC_LUT_SIZE].resistance_x10 =>
              (temperature_x10 = NTC_LUT[NTC_LUT_SIZE].temperature_x10
               /\ temperature_x10 # SENTINEL)

\* C12: every non-zero resistance is converted to a temperature inside the
\* table's range [-400, +400]; the sentinel is returned for no resistance
\* other than zero.
C12_NonZeroInsideTableRange ==
    (tpc = "done" /\ resistance_x10 # 0) =>
        /\ temperature_x10 # SENTINEL
        /\ NTC_LUT[1].temperature_x10 <= temperature_x10
        /\ temperature_x10 <= NTC_LUT[NTC_LUT_SIZE].temperature_x10

\* C13: convertToTemperature_x10(0) returns the sentinel -32768 at once: the
\* table search is never entered and no entry is inspected.
C13_ZeroRejectedBeforeSearch ==
    (tpc = "done" /\ resistance_x10 = 0) =>
        /\ temperature_x10 = SENTINEL
        /\ spc = "idle"
        /\ inspections = 0

\* the conversion of a zero resistance has returned the sentinel with the
\* search untouched
C13_Witness ==
    /\ tpc = "done" /\ resistance_x10 = 0 /\ temperature_x10 = SENTINEL
    /\ spc = "idle" /\ keys = <<>>

\* the resistance lies inside the key range of the calibration table
InKeyRange(r) ==
    NTC_LUT[NTC_LUT_SIZE].resistance_x10 <= r /\ r <= NTC_LUT[1].resistance_x10

\* C28: the temperature does not rise with the resistance: the temperature
\* returned for a resistance inside the table's key range is at least the
\* temperature every larger resistance inside the range is converted to.
C28_MonotoneInResistance ==
    (tpc = "done" /\ InKeyRange(resistance_x10)) =>
        \A r2 \in TestResistances :
            (resistance_x10 < r2 /\ InKeyRange(r2)) =>
                \A o \in convertToTemperature_x10(r2) :
                    o.returns /\ temperature_x10 >= o.value

\* the midpoint of the two hottest keys has been interpolated to 325, between
\* the exact hits 250 and 400 on either side of it
C28_Witness ==
    /\ tpc = "done" /\ resistance_x10 = 3000 /\ temperature_x10 = 325
    /\ ~result.foundExact /\ result.lowerIdx = 1 /\ result.upperIdx = 2

----------------------------------------------------------------------------
(* Properties of AdcSampler::sample, checked under SpecSample *)

RECURSIVE SumFrom(_, _, _)
\* seq[i] + ... + seq[j]
SumFrom(seq, i, j) == IF i > j THEN 0 ELSE seq[i] + SumFrom(seq, i + 1, j)

\* the sum S of the samples_per_read_ acquisitions that follow the discarded ones
AveragedSum ==
    SumFrom(acquired, discard_N_first_ + 1, discard_N_first_ + samples_per_read_)

\* C14: sample() with discard = D and average = M >= 1 makes exactly D + M
\* acquisitions and returns floor((S + floor(M / 2)) / M), S itself when M = 1,
\* limited to MAX_VALUE, where S sums the M acquisitions after the first D; the
\* discarded values and the settle time do not enter the result.
C14_RoundedAverage ==
    apc = "done" =>
        /\ samples_per_read_ >= 1
        /\ Len(acquired) = discard_N_first_ + samples_per_read_
        /\ avg = Min((AveragedSum + (samples_per_read_ \div 2)) \div samples_per_read_,
                     MAX_VALUE)
        /\ samples_per_read_ = 1 => avg = Min(AveragedSum, MAX_VALUE)
        /\ avg <= MAX_VALUE

\* four acquisitions of 10 discarded, four of 20 averaged: the result is 20
C14_Witness ==
    /\ apc = "done" /\ discard_N_first_ = 4 /\ samples_per_read_ = 4
    /\ acquired = <<10, 10, 10, 10, 20, 20, 20, 20>>
    /\ avg = 20

----------------------------------------------------------------------------
(* Properties of TemperatureSensor, checked under SpecPipe *)

\* the pipeline is Ready when sampler, resistance converter and temperature
\* converter are all attached
Ready == sampler_ # NULL /\ resistanceConverter_ # NULL /\ temperatureConverter_ # NULL

\* C15: a pipeline that is not Ready returns -32768 from every
\* readTemperature_x10 call and invokes no stage.
C15_NotReadyReturnsSentinel ==
    (ppc = "returned" /\ ~Ready) => (returned = SENTINEL /\ stages = <<>>)

\* the second read of a built pipeline that has lost its temperature converter
C15_Witness ==
    /\ ppc = "returned" /\ built /\ reads = 2
    /\ sampler_ # NULL /\ resistanceConverter_ # NULL /\ filter_ # NULL
    /\ temperatureConverter_ = NULL
    /\ returned = SENTINEL /\ stages = <<>>

\* C16: on a Ready pipeline with a filter, a read whose raw sample is 0 or
\* saturated, or whose temperature converter returns the sentinel, returns
\* -32768, does not apply the filter and leaves the filter's state unchanged.
C16_FaultLeavesFilterUntouched ==
    [][(/\ reads' = reads + 1 /\ ppc' = "returned"
        /\ Ready /\ filter_ # NULL
        /\ \/ adc_raw' \in {0, MAX_VALUE}
           \/ Len(stages') = 3 /\ temperature_x10' = SENTINEL)
       => (/\ returned' = SENTINEL
           /\ Len(stages') < 4
           /\ prev_value_' = prev_value_)]_vars

\* C17: a successful read invokes sampler, resistance converter, temperature
\* converter and (when attached) filter in this order, each once; with a
\* filter it returns the filter's output for the converted temperature,
\* without one the converted temperature itself.
C17_StagesInOrder ==
    (ppc = "returned" /\ returned # SENTINEL) =>
        /\ stages = IF filter_ # NULL
                    THEN <<SAMPLER, RESISTANCE_CONVERTER, TEMPERATURE_CONVERTER, FILTER>>
                    ELSE <<SAMPLER, RESISTANCE_CONVERTER, TEMPERATURE_CONVERTER>>
        /\ filter_ # NULL =>
              (new_value = temperature_x10 /\ returned = filtered
               /\ prev_value_ = filtered)
        /\ filter_ = NULL => returned = temperature_x10

\* a fresh filter of alpha 1/2 has halved the converted temperature 250
C17_Witness ==
    /\ ppc = "returned" /\ filter_ # NULL /\ alpha_ = FloatHalf
    /\ temperature_x10 = 250 /\ returned = 125
    /\ Len(stages) = 4

\* C18: with the table {(100000, -400), (5000, 250), (1000, 400)} a read whose
\* measured resistance is 5000 returns 250 when no filter is attached, and
\* also on the first read through a fresh filter of alpha = 1.
C18_ExactHitEndToEnd ==
    (/\ ppc = "returned" /\ Len(stages) >= 3 /\ resistance_x10 = 5000
     /\ filter_ = NULL \/ (alpha_ = FloatOne /\ reads = 1))
    => returned = 250

\* the first read through a fresh filter of alpha = 1 measured 5000 from the
\* raw value 341
C18_Witness ==
    /\ ppc = "returned" /\ filter_ # NULL /\ alpha_ = FloatOne /\ reads = 1
    /\ adc_raw = 341 /\ resistance_x10 = 5000
    /\ returned = 250 /\ Len(stages) = 4

\* C19: after build() the configuration is fixed: a read that returns after
\* build() has used the stage pointers build() saw, whatever add* calls were
\* made since.
C19_BuiltConfigurationFixed ==
    (built /\ ppc = "returned") => StagePointers = builtStages

----------------------------------------------------------------------------
(* Properties of EmaFilter, checked under SpecEma *)

----------------------------------------------------------------------------
(* Properties of SmaFilter, checked under SpecSma *)

\* C21: begin() replaces a window of 0 by 1 and keeps any other, so W >= 1
\* afterwards; from then on every apply(x) returns
\* previousAverage + (x - previousAverage) / W and stores it as the new
\* previousAverage, and with W = 1 the output is the input.
C21_SmaRecurrence ==
    [][/\ (mpc = "constructed" /\ mpc' = "begun") =>
              (window_' = IF window_ = 0 THEN 1 ELSE window_)
       /\ (mpc \in {"begun", "applied"} /\ mpc' \in {"applied", "undefined"}) =>
              /\ window_ >= 1
              /\ averaged' = prev_avg_ + TruncDiv(new_val' - prev_avg_, window_)
              /\ prev_avg_' = averaged'
              /\ window_ = 1 => averaged' = new_val']_vars

\* the smoothing factor lies in (0, 1]
ValidAlpha(a) ==
    a.m > 0 /\ (IF a.e >= 0 THEN a.m = 1 /\ a.e = 0 ELSE a.m < Pow2(-a.e))

\* C23: begin() leaves a smoothing factor in (0, 1]: a factor outside (0, 1] is
\* replaced by 0.5 and a factor inside it is left unchanged.
C23_AlphaValidated ==
    [][(epc = "constructed" /\ epc' = "begun") =>
          /\ ValidAlpha(alpha_')
          /\ ValidAlpha(alpha_) => alpha_' = alpha_
          /\ ~ValidAlpha(alpha_) => alpha_' = Float(1, -1)]_vars

\* C29: once begin() has run, every apply(x) returns and stores a value between
\* the previous output and x inclusive; with the initial value and the inputs
\* in [-400, 400] every output lies in [-400, 400].
C29_NoOvershoot ==
    [][(epc \in {"begun", "applied"} /\ epc' = "applied") =>
          /\ \/ (prev_value_ <= filtered' /\ filtered' <= new_value')
             \/ (new_value' <= filtered' /\ filtered' <= prev_value_)
          /\ prev_value_' = filtered'
          /\ -400 <= filtered' /\ filtered' <= 400]_vars

\* C29, the part on the pipeline: a read that passed the filter and returned
\* has not returned the sentinel
C29_FilteredReadNotSentinel ==
    (ppc = "returned" /\ Len(stages) = 4) => returned # SENTINEL

----------------------------------------------------------------------------
(* Properties of EmaFilter under a constant input, checked under SpecEmaConst *)

\* C24: with a smoothing factor in (0, 1], any initial value and a constant
\* input, after finitely many calls of apply the output equals the input and
\* stays equal to it.
C24_ConvergesToInput ==
    <>[](ValidAlpha(alpha_) => (epc = "applied" /\ filtered = new_value))

----------------------------------------------------------------------------
(* Properties of the two pipelines, checked under SpecChan *)

\* the runs of a pipeline that is read alone, from the read i of samples and
\* the filter state prev on: [returns, values] with the values returned
RECURSIVE SoloRuns(_, _, _)
SoloRuns(samples, i, prev) ==
    IF i > Len(samples)
    THEN {[returns |-> TRUE, values |-> <<>>]}
    ELSE UNION {IF ~o.returns
                THEN {[returns |-> FALSE, values |-> <<>>]}
                ELSE {[returns |-> r.returns, values |-> <<o.value>> \o r.values] :
                      r \in SoloRuns(samples, i + 1, o.prev)} :
                o \in ReadOutcomes(samples[i], fixedResistor_, alpha_, prev)}

\* C30: in every interleaving of the reads of the two pipelines every read
\* returns, and the values a pipeline has returned are the one sequence its
\* own samples give when the pipeline is read alone.
C30_ChannelsIndependent ==
    /\ ch_hung = "none"
    /\ \A c \in Channels :
          SoloRuns(ch_samples[c], 1, 0) = {[returns |-> TRUE, values |-> ch_returned[c]]}

============================================================================
